---- MODULE Spec2Model ----
(***************************************************************************)
(* Federated Slack search and thread reconstruction                        *)
(* (src/src/services/slackService.ts): slackFetch, performSearch,          *)
(* generateQueryVariations and searchMessages, and the handler of          *)
(* src/components/Dashboard.tsx that awaits searchMessages.                *)
(*                                                                         *)
(* One step of the model is one turn of the JavaScript event loop: the     *)
(* arrival of a response, the end of a body read, the expiry of a backoff  *)
(* timer or the abort of the signal, together with every promise reaction  *)
(* (microtask) that the turn triggers, up to the next await.               *)
(*                                                                         *)
(* Strings whose characters the code inspects (timestamps, the Retry-After *)
(* header, the keyword) are sequences of one-character strings.            *)
(***************************************************************************)
EXTENDS Integers, Sequences, FiniteSets, TLC

VARIABLES
    keyword,        \* params.keyword
    queryVariations,\* searchMessages: generateQueryVariations(keyword)
    channels,       \* params.channels
    index,          \* the upstream search index: query -> its result pages
    aborted,        \* signal.aborted
    tasks,          \* one performSearch invocation per variation/channel, with
                    \* the page numbers it has handed to slackFetch
    threadFetches,  \* one conversations.replies call per threadTsToFetch entry
    uniqueMessages, \* searchMessages: the permalink-deduplicated matches
    phase,          \* searchMessages: which await it is suspended at
    outcome,        \* the settlement of the promise searchMessages returned
    pendingAtAbort, \* history: the promise was pending when the signal aborted
    call,           \* SpecFetch: one slackFetch invocation on its own
    responses,      \* SpecFetch history: every response the call received
    sleeps,         \* SpecFetch history: every delay handed to setTimeout
    handler,        \* Dashboard: the await handleGenerateSummary is suspended at
    summary         \* Dashboard: the summary state the page displays

vars == <<keyword, queryVariations, channels, index, aborted, tasks, threadFetches,
          uniqueMessages, phase, outcome, pendingAtAbort, call, responses,
          sleeps, handler, summary>>

searchVars == <<keyword, queryVariations, channels, index, tasks, threadFetches,
                uniqueMessages, phase, outcome, pendingAtAbort>>

fetchVars == <<call, responses, sleeps>>

dashboardVars == <<handler, summary>>

----------------------------------------------------------------------------
(* Generic helpers                                                         *)

None == "none"

RECURSIVE Flat(_)
Flat(ss) == IF ss = <<>> THEN <<>> ELSE Head(ss) \o Flat(Tail(ss))

Range(s) == {s[i] : i \in 1..Len(s)}

Digits == <<"0", "1", "2", "3", "4", "5", "6", "7", "8", "9">>

IsDigit(c) == \E i \in 1..Len(Digits) : Digits[i] = c

DigitVal(c) == (CHOOSE i \in 1..Len(Digits) : Digits[i] = c) - 1

\* UTF-16 code unit order of the characters timestamps are made of
CharCode(c) == IF c = "." THEN 46 ELSE 48 + DigitVal(c)

\* NaN, as a number that no parse of digits yields
NaN == 0 - 1

RECURSIVE DigitRun(_, _)
DigitRun(s, acc) ==
    IF s = <<>> \/ ~IsDigit(Head(s)) THEN acc
    ELSE DigitRun(Tail(s), acc * 10 + DigitVal(Head(s)))

RECURSIVE SkipDigits(_)
SkipDigits(s) == IF s = <<>> \/ ~IsDigit(Head(s)) THEN s ELSE SkipDigits(Tail(s))

\* parseInt(s, 10): the leading run of decimal digits of s, NaN when none
parseInt(s) == IF s = <<>> \/ ~IsDigit(Head(s)) THEN NaN ELSE DigitRun(s, 0)

\* parseFloat(s), in tenths: integer part, then at most one digit after the
\* point (the timestamps of the model carry one fractional digit)
parseFloat(s) ==
    IF s = <<>> \/ ~IsDigit(Head(s)) THEN NaN
    ELSE LET rest == SkipDigits(s)
             frac == IF Len(rest) >= 2 /\ rest[1] = "." /\ IsDigit(rest[2])
                     THEN DigitVal(rest[2]) ELSE 0
         IN DigitRun(s, 0) * 10 + frac

----------------------------------------------------------------------------
(* slackFetch: one logical API call, as a state machine over its awaits    *)

InitialRetries == 5

\* placeholder of an error slot that holds no error
NoError == [name |-> "none", message |-> <<>>]

AbortError == [name |-> "AbortError", message |-> <<"aborted">>]

\* fetch() rejecting on a network failure ("Failed to fetch")
NetworkError == [name |-> "TypeError", message |-> <<"Failed to fetch">>]

RateLimitError == [name |-> "Error", message |-> <<"Slack API error", "ratelimited">>]

ApiError(code) == [name |-> "Error", message |-> <<"Slack API error", code>>]

NonJsonError == [name |-> "Error", message |-> <<"non-JSON response">>]

\* response.json() rejecting on a body that does not parse
SyntaxError == [name |-> "SyntaxError", message |-> <<"Unexpected token">>]

RetriesExhaustedError == [name |-> "Error", message |-> <<"failed after multiple retries">>]

NoHeader == [present |-> FALSE, value |-> <<>>]

Header(v) == [present |-> TRUE, value |-> v]

NoData == [ok |-> FALSE, error |-> None, messages |-> <<>>]

\* what stands for the payload of a body that is not JSON although the
\* content-type says so: response.json() rejects on it
Malformed == [ok |-> FALSE, error |-> "malformed", messages |-> <<>>]

\* a payload with ok: true
OkData(messages) == [ok |-> TRUE, error |-> None, messages |-> messages]

\* a payload with ok: false and an error code
ErrorData(code) == [ok |-> FALSE, error |-> code, messages |-> <<>>]

\* a response: its status, its Retry-After header, whether its content-type
\* names application/json, and the payload its body parses to
Response(status, retryAfter, json, data) ==
    [failed |-> FALSE, status |-> status, retryAfter |-> retryAfter,
     json |-> json, data |-> data]

\* no response at all: the fetch promise rejects
NoResponse ==
    [failed |-> TRUE, status |-> 0, retryAfter |-> NoHeader, json |-> FALSE,
     data |-> NoData]

\* response.headers.get('Retry-After') || '1'
RetryAfterOrDefault(r) ==
    IF r.retryAfter.present /\ r.retryAfter.value # <<>>
    THEN r.retryAfter.value ELSE <<"1">>

\* the delay setTimeout applies to its argument: NaN counts as 0
TimerDelay(ms) == IF ms < 0 THEN 0 ELSE ms

retryAfterSeconds(r) == parseInt(RetryAfterOrDefault(r))

\* BackoffMs, were the Retry-After header ignored
BackoffMsFixed(r) == 1000

BackoffMs(r) ==
    LET s == retryAfterSeconds(r) IN TimerDelay(IF s = NaN THEN NaN ELSE s * 1000)

\* line 18: let retries = 5
NewCall ==
    [pc |-> "start", retries |-> InitialRetries, requests |-> 0, delay |-> 0,
     data |-> NoData, error |-> NoError]

Throw(c, e) == [c EXCEPT !.pc = "threw", !.error = e]

\* lines 19-56: the loop test, then fetch(url, {signal}); an aborted signal
\* rejects the fetch without a request being sent
IssueFetch(c, ab) ==
    IF c.retries > 0
    THEN IF ab THEN Throw(c, AbortError)
         ELSE [c EXCEPT !.pc = "fetch", !.requests = @ + 1, !.delay = 0]
    ELSE Throw(c, RetriesExhaustedError)

slackFetch(ab) == IssueFetch(NewCall, ab)

\* OnResponse, were the exhaustion test of line 61 retries < 0
OnResponseLenient(c, r) ==
    IF r.failed THEN Throw(c, NetworkError)
    ELSE IF r.status = 429
    THEN LET left == c.retries - 1 IN
         IF left < 0 THEN Throw([c EXCEPT !.retries = left], RateLimitError)
         ELSE [c EXCEPT !.pc = "backoff", !.retries = left, !.delay = BackoffMs(r)]
    ELSE IF r.json THEN [c EXCEPT !.pc = "json", !.data = r.data]
    ELSE [c EXCEPT !.pc = "text"]

\* lines 59-84 up to the next await: the fetch promise settles with r
OnResponse(c, r) ==
    IF r.failed THEN Throw(c, NetworkError)
    ELSE IF r.status = 429
    THEN LET left == c.retries - 1 IN
         IF left <= 0 THEN Throw([c EXCEPT !.retries = left], RateLimitError)
         ELSE [c EXCEPT !.pc = "backoff", !.retries = left, !.delay = BackoffMs(r)]
    ELSE IF r.json THEN [c EXCEPT !.pc = "json", !.data = r.data]
    ELSE [c EXCEPT !.pc = "text"]

\* OnBody, were the ok flag of the payload not tested at line 75
OnBodyUntested(c) ==
    IF c.pc = "json"
    THEN IF c.data = Malformed THEN Throw(c, SyntaxError)
         ELSE [c EXCEPT !.pc = "returned"]
    ELSE Throw(c, NonJsonError)

\* lines 74-84: response.json() or response.text() settles
OnBody(c) ==
    IF c.pc = "json"
    THEN IF c.data = Malformed THEN Throw(c, SyntaxError)
         ELSE IF ~c.data.ok THEN Throw(c, ApiError(c.data.error))
         ELSE [c EXCEPT !.pc = "returned"]
    ELSE Throw(c, NonJsonError)

\* lines 68-69: the backoff timer fires, continue
OnTimer(c, ab) == IssueFetch(c, ab)

\* OnAbort, were the signal not handed to fetch
OnAbortUnheard(c) == c

\* the signal aborts: an outstanding fetch or body read rejects, a backoff
\* timer keeps running
OnAbort(c) ==
    IF c.pc \in {"fetch", "json", "text"} THEN Throw(c, AbortError) ELSE c

\* a settled call as its caller holds it: the value or the error it settled
\* with; the locals of the finished invocation are gone
Settlement(c) == [c EXCEPT !.retries = 0, !.requests = 0, !.delay = 0]

\* the promise searchMessages returned
Pending == [state |-> "pending", value |-> <<>>, error |-> NoError]

Fulfilled(v) == [state |-> "fulfilled", value |-> v, error |-> NoError]

Rejected(e) == [state |-> "rejected", value |-> <<>>, error |-> e]

----------------------------------------------------------------------------
(* generateQueryVariations                                                 *)

\* the characters \s matches, of those keywords are made of
IsSpace(c) == c \in {" ", "\t"}

\* keyword.split(/\s+/).filter(Boolean)
RECURSIVE SplitWords(_, _, _)
SplitWords(s, cur, acc) ==
    IF s = <<>> THEN (IF cur = <<>> THEN acc ELSE Append(acc, cur))
    ELSE IF IsSpace(Head(s))
    THEN SplitWords(Tail(s), <<>>, IF cur = <<>> THEN acc ELSE Append(acc, cur))
    ELSE SplitWords(Tail(s), Append(cur, Head(s)), acc)

RECURSIVE Pow2(_)
Pow2(n) == IF n = 0 THEN 1 ELSE 2 * Pow2(n - 1)

\* the smallest 32-bit integer
MinInt32 == 0 - 2147483647 - 1

\* line 218: 1 << n on 32-bit integers: the shift count is taken modulo 32
\* and bit 31 is the sign
ShiftLeftOne(n) == IF n % 32 = 31 THEN MinInt32 ELSE Pow2(n % 32)

\* line 222: (i >> j) & 1 for i >= 0, the shift count taken modulo 32
BitAt(i, j) == IF j % 32 = 31 THEN 0 ELSE (i \div Pow2(j % 32)) % 2

\* lines 219-226: the variation of bitmask i
RECURSIVE currentVariation(_, _, _, _)
currentVariation(words, i, j, acc) ==
    IF j >= Len(words) - 1 THEN acc
    ELSE currentVariation(words, i, j + 1,
             (IF BitAt(i, j) = 1 THEN Append(acc, " ") ELSE acc)
                 \o words[j + 2])

\* Set.add, the set kept in insertion order
SetAdd(set, x) == IF x \in Range(set) THEN set ELSE Append(set, x)

RECURSIVE variationsFrom(_, _, _)
variationsFrom(words, i, set) ==
    IF i >= ShiftLeftOne(Len(words) - 1) THEN set
    ELSE variationsFrom(words, i + 1,
                        SetAdd(set, currentVariation(words, i, 0, words[1])))

generateQueryVariations(kw) ==
    LET words == SplitWords(kw, <<>>, <<>>) IN
    IF Len(words) <= 1 THEN <<kw>> ELSE variationsFrom(words, 0, <<>>)

----------------------------------------------------------------------------
(* Messages, and the Map and sort primitives searchMessages uses           *)

Msg(permalink, ts, thread_ts, reply_count, channel) ==
    [permalink |-> permalink, ts |-> ts, thread_ts |-> thread_ts,
     reply_count |-> reply_count, channel |-> channel]

\* Map.set: a new key goes last, an existing key keeps its place and takes
\* the new value
RECURSIVE MapSet(_, _, _)
MapSet(m, k, v) ==
    IF m = <<>> THEN << <<k, v>> >>
    ELSE IF Head(m)[1] = k THEN << <<k, v>> >> \o Tail(m)
    ELSE <<Head(m)>> \o MapSet(Tail(m), k, v)

\* new Map(entries)
RECURSIVE MapOf(_, _)
MapOf(entries, m) ==
    IF entries = <<>> THEN m
    ELSE MapOf(Tail(entries), MapSet(m, Head(entries)[1], Head(entries)[2]))

\* Array.from(map.values())
MapValues(m) == [i \in 1..Len(m) |-> m[i][2]]

\* the order of two strings under <, as -1, 0 or 1
RECURSIVE StringCompare(_, _)
StringCompare(x, y) ==
    IF x = <<>> THEN (IF y = <<>> THEN 0 ELSE 0 - 1)
    ELSE IF y = <<>> THEN 1
    ELSE IF CharCode(Head(x)) < CharCode(Head(y)) THEN 0 - 1
    ELSE IF CharCode(Head(x)) > CharCode(Head(y)) THEN 1
    ELSE StringCompare(Tail(x), Tail(y))

\* TsCompare, were the timestamps compared as strings
TsCompareLex(a, b) == StringCompare(a.ts, b.ts)

\* the comparator of both sorts: parseFloat(a.ts) - parseFloat(b.ts)
TsCompare(a, b) == parseFloat(a.ts) - parseFloat(b.ts)

\* Array.prototype.sort with TsCompare: a stable sort
RECURSIVE SortInsert(_, _)
SortInsert(sorted, x) ==
    IF sorted = <<>> THEN <<x>>
    ELSE IF TsCompare(Head(sorted), x) <= 0
    THEN <<Head(sorted)>> \o SortInsert(Tail(sorted), x)
    ELSE <<x>> \o sorted

RECURSIVE SortByTs(_, _)
SortByTs(ms, sorted) ==
    IF ms = <<>> THEN sorted ELSE SortByTs(Tail(ms), SortInsert(sorted, Head(ms)))

----------------------------------------------------------------------------
(* searchMessages after the fan-out: merge, thread resolution, rebuild     *)

\* UniqueByPermalink, were the merged results not deduplicated
UniqueByPermalinkNone(allSearchResults) == allSearchResults

\* line 295: deduplicate by permalink
UniqueByPermalink(allSearchResults) ==
    MapValues(MapOf([i \in 1..Len(allSearchResults) |->
                        <<allSearchResults[i].permalink, allSearchResults[i]>>],
                    <<>>))

\* lines 298-306: thread_ts -> channel id
RECURSIVE ThreadTsToFetch(_, _)
ThreadTsToFetch(msgs, m) ==
    IF msgs = <<>> THEN m
    ELSE LET msg == Head(msgs) IN
         ThreadTsToFetch(Tail(msgs),
             IF msg.thread_ts # <<>> THEN MapSet(m, msg.thread_ts, msg.channel)
             ELSE IF msg.reply_count > 0 THEN MapSet(m, msg.ts, msg.channel)
             ELSE m)

\* StandaloneMessages, were the messages outside threads left out
StandaloneMessagesNone(unique) == <<>>

\* line 325
StandaloneMessages(unique) ==
    SelectSeq(unique, LAMBDA msg : msg.thread_ts = <<>> /\ ~(msg.reply_count > 0))

\* FinalUniqueMessages, were the merged messages not deduplicated
FinalUniqueMessagesNone(allMessages) == allMessages

\* line 329: deduplicate by timestamp
FinalUniqueMessages(allMessages) ==
    MapValues(MapOf([i \in 1..Len(allMessages) |->
                        <<allMessages[i].ts, allMessages[i]>>],
                    <<>>))

\* line 334
ThreadKey(msg) == IF msg.thread_ts # <<>> THEN msg.thread_ts ELSE msg.ts

\* GroupByThread, were every message put under the key of the first
GroupByThreadFirst(msgs, m) ==
    IF msgs = <<>> THEN m ELSE << <<ThreadKey(Head(msgs)), msgs>> >>

\* lines 332-339: threadKey -> the messages of the thread, in arrival order
RECURSIVE GroupByThread(_, _)
GroupByThread(msgs, m) ==
    IF msgs = <<>> THEN m
    ELSE LET msg == Head(msgs)
             k == ThreadKey(msg)
             at == {i \in 1..Len(m) : m[i][1] = k}
         IN GroupByThread(Tail(msgs),
                IF at = {} THEN Append(m, <<k, <<msg>> >>)
                ELSE [m EXCEPT ![CHOOSE i \in at : TRUE][2] = Append(@, msg)])

\* Conversation, were the messages of the thread left in arrival order
ConversationUnsorted(threadMessages) ==
    LET parent == Head(threadMessages)
    IN [permalink |-> parent.permalink, ts |-> parent.ts,
        thread_ts |-> parent.thread_ts, reply_count |-> parent.reply_count,
        channel |-> parent.channel, replies |-> Tail(threadMessages)]

\* lines 342-347: the earliest message is the parent, the rest its replies
Conversation(threadMessages) ==
    LET sorted == SortByTs(threadMessages, <<>>)
        parent == Head(sorted)
    IN [permalink |-> parent.permalink, ts |-> parent.ts,
        thread_ts |-> parent.thread_ts, reply_count |-> parent.reply_count,
        channel |-> parent.channel, replies |-> Tail(sorted)]

\* lines 324-352
Reconstruct(unique, fetchedThreads) ==
    LET allMessages == StandaloneMessages(unique) \o fetchedThreads
        threads == GroupByThread(FinalUniqueMessages(allMessages), <<>>)
        conversations == [i \in 1..Len(threads) |-> Conversation(threads[i][2])]
    IN SortByTs(conversations, <<>>)

----------------------------------------------------------------------------
(* The upstream workspace the search runs against                          *)

\* thread "9.5" of channel C1: a root and two replies
a0 == Msg("pA0", <<"9", ".", "5">>, <<"9", ".", "5">>, 2, "C1")

a1 == Msg("pA1", <<"9", ".", "8">>, <<"9", ".", "5">>, 0, "C1")

a2 == Msg("pA2", <<"1", "0", ".", "1">>, <<"9", ".", "5">>, 0, "C1")

\* thread "9.5" of channel C2: the same thread key in another channel
b0 == Msg("pB0", <<"9", ".", "5">>, <<"9", ".", "5">>, 1, "C2")

b1 == Msg("pB1", <<"9", ".", "9">>, <<"9", ".", "5">>, 0, "C2")

\* thread "10.3" of channel C1
d0 == Msg("pD0", <<"1", "0", ".", "3">>, <<"1", "0", ".", "3">>, 1, "C1")

d1 == Msg("pD1", <<"1", "0", ".", "6">>, <<"1", "0", ".", "3">>, 0, "C1")

\* thread "9.7" of channel C2; its reply carries the timestamp of d1, a
\* message of another channel
e0 == Msg("pE0", <<"9", ".", "7">>, <<"9", ".", "7">>, 1, "C2")

e1 == Msg("pE1", <<"1", "0", ".", "6">>, <<"9", ".", "7">>, 0, "C2")

\* a message outside every thread
s0 == Msg("pS0", <<"1", "0", ".", "2">>, <<>>, 0, "C1")

\* every message of the workspace, as conversations.replies reports it
Workspace == <<a0, a1, a2, b0, b1, d0, d1, e0, e1, s0>>

\* a search hit for a thread root: reply_count but no thread_ts
RootHit(m) == [m EXCEPT !.thread_ts = <<>>]

\* a search hit the index has not yet linked to its thread
StaleHit(m) == [m EXCEPT !.thread_ts = <<>>, !.reply_count = 0]

Paging(pages) == [present |-> TRUE, pages |-> pages]

NoPaging == [present |-> FALSE, pages |-> 0]

Page(matches, paging) == [matches |-> matches, paging |-> paging]

\* what the index holds for one query: its result pages
Listings ==
    { << Page(<<>>, Paging(1)) >>,
      << Page(<<s0, a2>>, Paging(1)) >>,
      << Page(<<d1>>, Paging(2)), Page(<<StaleHit(a1), s0>>, Paging(2)) >>,
      << Page(<<s0>>, Paging(3)), Page(<<>>, Paging(3)), Page(<<d1>>, Paging(3)) >>,
      << Page(<<RootHit(b0), e1>>, NoPaging) >>,
      << Page(<<StaleHit(b0)>>, Paging(1)) >> }

\* search.messages for page n of a listing
SearchPage(listing, n) ==
    IF n <= Len(listing) THEN listing[n]
    ELSE Page(<<>>, listing[Len(listing)].paging)

\* conversations.replies for (channel, ts): the thread, oldest first
Replies(channelId, ts) ==
    SelectSeq(Workspace, LAMBDA m : m.channel = channelId /\ ThreadKey(m) = ts)

----------------------------------------------------------------------------
(* performSearch: one paginated search, as a task of the fan-out           *)

\* hasMore, were the last page the one after the reported total
hasMoreInclusive(page, messages) ==
    IF messages.paging.present THEN page <= messages.paging.pages ELSE FALSE

\* hasMore, were a response without paging taken to have a second page
hasMoreUnpaged(page, messages) ==
    IF messages.paging.present THEN page < messages.paging.pages ELSE page < 2

\* line 254: page < paging.pages, false without paging
hasMore(page, messages) ==
    IF messages.paging.present THEN page < messages.paging.pages ELSE FALSE

RECURSIVE Advance(_, _)

\* Advance, were a failed page fetch taken for the end of the pages
AdvanceSwallow(t, ab) ==
    IF t.call.pc = "threw"
    THEN [t EXCEPT !.promise = Fulfilled(t.allMessages), !.call = Settlement(@)]
    ELSE IF t.call.pc = "returned"
    THEN LET messages == t.call.data.messages
             all == t.allMessages \o messages.matches
         IN IF hasMore(t.page, messages)
            THEN Advance([t EXCEPT !.allMessages = all, !.page = @ + 1,
                                   !.requested = Append(@, t.page + 1),
                                   !.call = slackFetch(ab)], ab)
            ELSE [t EXCEPT !.allMessages = all, !.page = @ + 1,
                           !.promise = Fulfilled(all), !.call = Settlement(@)]
    ELSE t

\* Advance, were the matches of a page put before those accumulated
AdvancePrepend(t, ab) ==
    IF t.call.pc = "threw"
    THEN [t EXCEPT !.promise = Rejected(t.call.error), !.call = Settlement(@)]
    ELSE IF t.call.pc = "returned"
    THEN LET messages == t.call.data.messages
             all == messages.matches \o t.allMessages
         IN IF hasMore(t.page, messages)
            THEN Advance([t EXCEPT !.allMessages = all, !.page = @ + 1,
                                   !.requested = Append(@, t.page + 1),
                                   !.call = slackFetch(ab)], ab)
            ELSE [t EXCEPT !.allMessages = all, !.page = @ + 1,
                           !.promise = Fulfilled(all), !.call = Settlement(@)]
    ELSE t

\* lines 251-256 and the next turn of the loop, or the rejection of the
\* task, once its slackFetch call has settled
Advance(t, ab) ==
    IF t.call.pc = "threw"
    THEN [t EXCEPT !.promise = Rejected(t.call.error), !.call = Settlement(@)]
    ELSE IF t.call.pc = "returned"
    THEN LET messages == t.call.data.messages
             all == t.allMessages \o messages.matches
         IN IF hasMore(t.page, messages)
            THEN Advance([t EXCEPT !.allMessages = all, !.page = @ + 1,
                                   !.requested = Append(@, t.page + 1),
                                   !.call = slackFetch(ab)], ab)
            ELSE [t EXCEPT !.allMessages = all, !.page = @ + 1,
                           !.promise = Fulfilled(all), !.call = Settlement(@)]
    ELSE t

\* lines 238-250: the first turn of the loop
performSearch(query, ab) ==
    Advance([query |-> query, page |-> 1, allMessages |-> <<>>,
             requested |-> <<1>>, call |-> slackFetch(ab), promise |-> Pending],
            ab)

----------------------------------------------------------------------------
(* searchMessages                                                          *)

startDate == "2024-01-01"

endDate == "2024-01-31"

\* line 274
baseQuery(variation) == variation \o <<" after:", startDate, " before:", endDate>>

\* channelQuery, were the in: term not appended
channelQueryUnrestricted(variation, channelId) == baseQuery(variation)

\* line 280
channelQuery(variation, channelId) == baseQuery(variation) \o <<" in:", channelId>>

\* lines 273-289: the queries of the fan-out, in the order of the flattened
\* result
Queries(kw, chs) ==
    LET vs == generateQueryVariations(kw) IN
    Flat([i \in 1..Len(vs) |->
            IF Len(chs) > 0
            THEN [j \in 1..Len(chs) |-> channelQuery(vs[i], chs[j])]
            ELSE <<baseQuery(vs[i])>>])

\* lines 309-320: one thread fetch, its promise after .then and .catch
ThreadFetch(ts, channelId, ab) ==
    [ts |-> ts, channel |-> channelId, call |-> slackFetch(ab), promise |-> Pending]

\* ThreadSettle, were the catch of line 312 to swallow every error
ThreadSettleSwallow(f) ==
    IF f.call.pc = "returned"
    THEN [f EXCEPT !.promise = Fulfilled(f.call.data.messages),
                   !.call = Settlement(@)]
    ELSE IF f.call.pc = "threw"
    THEN [f EXCEPT !.promise = Fulfilled(<<>>), !.call = Settlement(@)]
    ELSE f

\* ThreadSettle, were there no catch at line 312
ThreadSettleRethrow(f) ==
    IF f.call.pc = "returned"
    THEN [f EXCEPT !.promise = Fulfilled(f.call.data.messages),
                   !.call = Settlement(@)]
    ELSE IF f.call.pc = "threw"
    THEN [f EXCEPT !.promise = Rejected(f.call.error), !.call = Settlement(@)]
    ELSE f

\* lines 311-319 once the slackFetch call has settled
ThreadSettle(f) ==
    IF f.call.pc = "returned"
    THEN [f EXCEPT !.promise = Fulfilled(f.call.data.messages),
                   !.call = Settlement(@)]
    ELSE IF f.call.pc = "threw"
    THEN IF f.call.error.name = "AbortError"
         THEN [f EXCEPT !.promise = Rejected(f.call.error), !.call = Settlement(@)]
         ELSE [f EXCEPT !.promise = Fulfilled(<<>>), !.call = Settlement(@)]
    ELSE f

\* AllFulfilled, were Promise.all never to resolve
NoneFulfilled(ps) == FALSE

\* AllFulfilled, were Promise.all to resolve with the first promise to fulfil
SomeFulfilled(ps) == \E i \in 1..Len(ps) : ps[i].promise.state = "fulfilled"

AllFulfilled(ps) == \A i \in 1..Len(ps) : ps[i].promise.state = "fulfilled"

AnyRejected(ps) == \E i \in 1..Len(ps) : ps[i].promise.state = "rejected"

\* Promise.all rejects with the reason of the first promise to reject
FirstRejection(ps) ==
    ps[CHOOSE i \in 1..Len(ps) :
          /\ ps[i].promise.state = "rejected"
          /\ \A j \in 1..(i - 1) : ps[j].promise.state # "rejected"].promise.error

Values(ps) == [i \in 1..Len(ps) |-> ps[i].promise.value]

\* lines 322-352: the await of the thread fetches and what follows it
AwaitThreads(unique, fs) ==
    /\ threadFetches' = fs
    /\ IF outcome.state # "pending" THEN UNCHANGED <<phase, outcome>>
       ELSE IF AnyRejected(fs)
       THEN phase' = "done" /\ outcome' = Rejected(FirstRejection(fs))
       ELSE IF AllFulfilled(fs)
       THEN /\ phase' = "done"
            /\ outcome' = Fulfilled(Reconstruct(unique, Flat(Values(fs))))
       ELSE phase' = "threads" /\ UNCHANGED outcome

\* lines 292-320: the await of the fan-out and what follows it
AwaitSearches(ts, ab) ==
    /\ tasks' = ts
    /\ IF outcome.state # "pending"
       THEN UNCHANGED <<phase, outcome, uniqueMessages, threadFetches>>
       ELSE IF AnyRejected(ts)
       THEN /\ phase' = "done"
            /\ outcome' = Rejected(FirstRejection(ts))
            /\ UNCHANGED <<uniqueMessages, threadFetches>>
       ELSE IF AllFulfilled(ts)
       THEN LET unique == UniqueByPermalink(Flat(Values(ts)))
                toFetch == ThreadTsToFetch(unique, <<>>)
            IN /\ uniqueMessages' = unique
               /\ AwaitThreads(unique,
                     [i \in 1..Len(toFetch) |->
                        ThreadSettle(ThreadFetch(toFetch[i][1], toFetch[i][2], ab))])
       ELSE /\ phase' = "search"
            /\ UNCHANGED <<outcome, uniqueMessages, threadFetches>>

----------------------------------------------------------------------------
(* Dashboard handleGenerateSummary, from its await of searchMessages on    *)

\* line 78: setSummary('') as the handler starts
EmptySummary == [kind |-> "empty", detail |-> <<>>]

\* line 118: the text summarizeDiscussions returned
GeneratedSummary == [kind |-> "generated", detail |-> <<>>]

\* lines 83-85: analyzeQuery returned no keyword
NoKeywordsError == [name |-> "Error", message |-> <<"no keywords">>]

\* geminiService.ts 108-115: analyzeQuery rethrows what generateContent threw
GeminiError == [name |-> "Error", message |-> <<"Gemini API error">>]

\* geminiService.ts 175-183: summarizeDiscussions throws a generic Error
SummaryError == [name |-> "Error", message |-> <<"cannot summarize">>]

\* the Dashboard before the form is submitted
DashboardIdle ==
    /\ handler = "idle"
    /\ summary = EmptySummary

\* line 98: the "no results" message
NoResultsSummary == [kind |-> "no results", detail |-> <<>>]

\* line 123: the "cancelled" message
CancelledSummary == [kind |-> "cancelled", detail |-> <<>>]

\* line 126: the failure message, which quotes error.message
FailureSummary(e) == [kind |-> "failure", detail |-> e.message]

\* line 116: still loading, the conversations go on to summarizeDiscussions
Summarizing == [kind |-> "loading", detail |-> <<>>]

\* setSummary, were there no test for an empty result at line 97
setSummaryUntested(o) ==
    IF o.state = "fulfilled" THEN Summarizing
    ELSE IF o.error.name = "AbortError" THEN CancelledSummary
    ELSE FailureSummary(o.error)

\* lines 95-127: what the handler shows once searchMessages has settled with o
setSummary(o) ==
    IF o.state = "fulfilled"
    THEN IF Len(o.value) = 0 THEN NoResultsSummary ELSE Summarizing
    ELSE IF o.error.name = "AbortError" THEN CancelledSummary
    ELSE FailureSummary(o.error)

----------------------------------------------------------------------------
(* Spec: one searchMessages call against the workspace                     *)

Keywords == {<<"a">>, <<"a", " ", "b">>}

ChannelSets == {<<>>, <<"C1">>, <<"C1", "C2">>}

\* the widest fan-out of the calls of the model
MaxFanOut == 2

Inputs ==
    {in \in Keywords \X ChannelSets : Len(Queries(in[1], in[2])) <= MaxFanOut}

\* the channel a query is restricted to by its in: term, None without one
QueryChannel(q) == IF q[Len(q) - 1] = " in:" THEN q[Len(q)] ELSE None

\* an index answers a query restricted to a channel with messages of that
\* channel only
Consistent(q, listing) ==
    QueryChannel(q) # None =>
        \A n \in 1..Len(listing) :
            \A m \in Range(listing[n].matches) : m.channel = QueryChannel(q)

\* the answers the upstream may give to the outstanding page request of t
PageResponses(t) ==
    {Response(429, NoHeader, FALSE, NoData),
     Response(200, NoHeader, TRUE, OkData(SearchPage(index[t.query], t.page))),
     Response(200, NoHeader, TRUE, ErrorData("invalid_auth")),
     Response(200, NoHeader, FALSE, NoData),
     NoResponse}

\* the answers the upstream may give to the outstanding thread fetch f
ThreadResponses(f) ==
    {Response(429, NoHeader, FALSE, NoData),
     Response(200, NoHeader, TRUE, OkData(Replies(f.channel, f.ts))),
     Response(200, NoHeader, TRUE, ErrorData("thread_not_found")),
     Response(200, NoHeader, FALSE, NoData),
     NoResponse}

FetchIdle ==
    /\ call = NewCall
    /\ responses = <<>>
    /\ sleeps = <<>>

Init ==
    /\ FetchIdle
    /\ DashboardIdle
    /\ \E in \in Inputs :
          /\ keyword = in[1]
          /\ queryVariations = <<>>
          /\ channels = in[2]
          /\ index \in [Range(Queries(in[1], in[2])) -> Listings]
          /\ \A q \in DOMAIN index : Consistent(q, index[q])
    /\ aborted = FALSE
    /\ tasks = <<>>
    /\ threadFetches = <<>>
    /\ uniqueMessages = <<>>
    /\ phase = "idle"
    /\ outcome = Pending
    /\ pendingAtAbort = FALSE

\* the caller invokes searchMessages(token, params, signal)
Call ==
    /\ phase = "idle"
    /\ queryVariations' = generateQueryVariations(keyword)
    /\ LET qs == Queries(keyword, channels) IN
       AwaitSearches([i \in 1..Len(qs) |-> performSearch(qs[i], aborted)], aborted)
    /\ UNCHANGED <<keyword, channels, index, aborted, pendingAtAbort, fetchVars,
                   dashboardVars>>

Running(p) == p.promise.state = "pending"

\* the upstream answers the page request of task i
PageRespond(i) ==
    /\ Running(tasks[i]) /\ tasks[i].call.pc = "fetch"
    /\ \E r \in PageResponses(tasks[i]) :
          AwaitSearches([tasks EXCEPT ![i] =
                            Advance([@ EXCEPT !.call = OnResponse(@, r)], aborted)],
                        aborted)
    /\ UNCHANGED <<keyword, queryVariations, channels, index, aborted,
                   pendingAtAbort, fetchVars,
                   dashboardVars>>

\* the body of the page response of task i has been read
PageBody(i) ==
    /\ Running(tasks[i]) /\ tasks[i].call.pc \in {"json", "text"}
    /\ AwaitSearches([tasks EXCEPT ![i] =
                         Advance([@ EXCEPT !.call = OnBody(@)], aborted)],
                     aborted)
    /\ UNCHANGED <<keyword, queryVariations, channels, index, aborted,
                   pendingAtAbort, fetchVars,
                   dashboardVars>>

\* the backoff timer of task i fires
PageTimer(i) ==
    /\ Running(tasks[i]) /\ tasks[i].call.pc = "backoff"
    /\ AwaitSearches([tasks EXCEPT ![i] =
                         Advance([@ EXCEPT !.call = OnTimer(@, aborted)], aborted)],
                     aborted)
    /\ UNCHANGED <<keyword, queryVariations, channels, index, aborted,
                   pendingAtAbort, fetchVars,
                   dashboardVars>>

\* the upstream answers thread fetch j
ThreadRespond(j) ==
    /\ Running(threadFetches[j]) /\ threadFetches[j].call.pc = "fetch"
    /\ \E r \in ThreadResponses(threadFetches[j]) :
          AwaitThreads(uniqueMessages,
             [threadFetches EXCEPT ![j] =
                 ThreadSettle([@ EXCEPT !.call = OnResponse(@, r)])])
    /\ UNCHANGED <<keyword, queryVariations, channels, index, aborted, tasks,
                   uniqueMessages, pendingAtAbort, fetchVars,
                   dashboardVars>>

\* the body of the response to thread fetch j has been read
ThreadBody(j) ==
    /\ Running(threadFetches[j]) /\ threadFetches[j].call.pc \in {"json", "text"}
    /\ AwaitThreads(uniqueMessages,
          [threadFetches EXCEPT ![j] = ThreadSettle([@ EXCEPT !.call = OnBody(@)])])
    /\ UNCHANGED <<keyword, queryVariations, channels, index, aborted, tasks,
                   uniqueMessages, pendingAtAbort, fetchVars,
                   dashboardVars>>

\* the backoff timer of thread fetch j fires
ThreadTimer(j) ==
    /\ Running(threadFetches[j]) /\ threadFetches[j].call.pc = "backoff"
    /\ AwaitThreads(uniqueMessages,
          [threadFetches EXCEPT ![j] =
              ThreadSettle([@ EXCEPT !.call = OnTimer(@, aborted)])])
    /\ UNCHANGED <<keyword, queryVariations, channels, index, aborted, tasks,
                   uniqueMessages, pendingAtAbort, fetchVars,
                   dashboardVars>>

\* the caller aborts the signal (Dashboard handleCancel)
Abort ==
    /\ ~aborted
    /\ aborted' = TRUE
    /\ pendingAtAbort' = (outcome.state = "pending")
    /\ IF phase = "idle"
       THEN UNCHANGED <<tasks, threadFetches, uniqueMessages, phase, outcome>>
       ELSE IF threadFetches # <<>>
       THEN /\ AwaitThreads(uniqueMessages,
                  [j \in 1..Len(threadFetches) |->
                     IF Running(threadFetches[j])
                     THEN ThreadSettle([threadFetches[j] EXCEPT !.call = OnAbort(@)])
                     ELSE threadFetches[j]])
            /\ UNCHANGED <<tasks, uniqueMessages>>
       ELSE AwaitSearches(
               [i \in 1..Len(tasks) |->
                   IF Running(tasks[i])
                   THEN Advance([tasks[i] EXCEPT !.call = OnAbort(@)], TRUE)
                   ELSE tasks[i]],
               TRUE)
    /\ UNCHANGED <<keyword, queryVariations, channels, index, fetchVars,
                   dashboardVars>>

Next ==
    \/ Call
    \/ \E i \in 1..Len(tasks) : PageRespond(i)
    \/ \E i \in 1..Len(tasks) : PageBody(i)
    \/ \E i \in 1..Len(tasks) : PageTimer(i)
    \/ \E j \in 1..Len(threadFetches) : ThreadRespond(j)
    \/ \E j \in 1..Len(threadFetches) : ThreadBody(j)
    \/ \E j \in 1..Len(threadFetches) : ThreadTimer(j)
    \/ Abort

Spec == Init /\ [][Next]_vars

\* the steps that do not wait for the user: searchMessages is called, the
\* upstream answers a request, a body read ends, a backoff timer fires
Progress ==
    \/ Call
    \/ \E i \in 1..Len(tasks) : PageRespond(i)
    \/ \E i \in 1..Len(tasks) : PageBody(i)
    \/ \E i \in 1..Len(tasks) : PageTimer(i)
    \/ \E j \in 1..Len(threadFetches) : ThreadRespond(j)
    \/ \E j \in 1..Len(threadFetches) : ThreadBody(j)
    \/ \E j \in 1..Len(threadFetches) : ThreadTimer(j)

\* searchMessages has yet to be called, or a page task or a thread fetch has
\* a request, a body read or a backoff timer outstanding: a Progress step is
\* possible
Waiting ==
    \/ phase = "idle"
    \/ \E i \in 1..Len(tasks) : Running(tasks[i])
    \/ \E j \in 1..Len(threadFetches) : Running(threadFetches[j])

\* searchMessages against an upstream that answers every request, on an
\* event loop that runs every callback that is due: weak fairness of
\* Progress, written out with Waiting for ENABLED <<Progress>>_vars.
\* Whether the caller aborts is left open.
SpecLive == Spec /\ ([]<>(~Waiting) \/ []<><<Progress>>_vars)

----------------------------------------------------------------------------
(* SpecDashboard: handleGenerateSummary and handleCancel around the search *)

\* lines 65-81: the form is submitted; a new AbortController, the summary is
\* cleared and analyzeQuery is awaited
handleGenerateSummary ==
    /\ handler = "idle"
    /\ handler' = "analyzeQuery"
    /\ summary' = EmptySummary
    /\ UNCHANGED <<aborted, searchVars, fetchVars>>

\* lines 81-95, 120-131 and geminiService.ts 79-115: the await of analyzeQuery
\* ends. generateContent is not given the signal, so the abort does not
\* reach it: keywords that join to params.keyword, no keyword, or an error
analyzeQuerySettled ==
    /\ handler = "analyzeQuery"
    /\ \E r \in {"keywords", "none", "error"} :
          IF r = "keywords"
          THEN handler' = "searchMessages" /\ UNCHANGED summary
          ELSE /\ handler' = "done"
               /\ summary' = FailureSummary(IF r = "none" THEN NoKeywordsError
                                            ELSE GeminiError)
    /\ UNCHANGED <<aborted, searchVars, fetchVars>>

\* line 95: searchMessages is called with controller.signal and runs
searchMessagesRuns ==
    /\ handler \in {"searchMessages", "summarizeDiscussions", "done"}
    /\ Progress

\* lines 95-117, 120-131: the await of searchMessages ends
searchMessagesSettled ==
    /\ handler = "searchMessages"
    /\ outcome.state # "pending"
    /\ IF setSummary(outcome) = Summarizing
       THEN handler' = "summarizeDiscussions" /\ UNCHANGED summary
       ELSE handler' = "done" /\ summary' = setSummary(outcome)
    /\ UNCHANGED <<aborted, searchVars, fetchVars>>

\* lines 117-131 and geminiService.ts 164-184: the await of
\* summarizeDiscussions ends. generateContent is not given the signal
\* (geminiService.ts 169-173): the text of the summary, or a generic Error
summarizeDiscussionsSettled ==
    /\ handler = "summarizeDiscussions"
    /\ \E r \in {GeneratedSummary, FailureSummary(SummaryError)} : summary' = r
    /\ handler' = "done"
    /\ UNCHANGED <<aborted, searchVars, fetchVars>>

\* lines 59-63: Cancel is pressed while abortControllerRef holds the
\* controller, that is between line 72 and the finally of line 130. The
\* continuation of a settled searchMessages runs before any click is handled
handleCancel ==
    /\ handler \in {"analyzeQuery", "searchMessages", "summarizeDiscussions"}
    /\ ~(handler = "searchMessages" /\ outcome.state # "pending")
    /\ Abort

DashboardNext ==
    \/ handleGenerateSummary
    \/ analyzeQuerySettled
    \/ searchMessagesRuns
    \/ searchMessagesSettled
    \/ summarizeDiscussionsSettled
    \/ handleCancel

SpecDashboard == Init /\ [][DashboardNext]_vars

----------------------------------------------------------------------------
(* SpecFetch: one slackFetch call against an arbitrary upstream            *)

RetryAfterHeaders ==
    {NoHeader, Header(<<>>), Header(<<"0">>), Header(<<"2">>),
     Header(<<"1", "0">>), Header(<<"2", "s">>), Header(<<"s">>)}

Payloads == {OkData(<<"m1">>), OkData(<<"m1", "m2">>)}

ErrorCodes == {"invalid_auth", "missing_scope"}

FetchResponses ==
    {Response(429, h, FALSE, NoData) : h \in RetryAfterHeaders}
    \cup {Response(200, NoHeader, TRUE, d) : d \in Payloads}
    \cup {Response(200, NoHeader, TRUE, ErrorData(e)) : e \in ErrorCodes}
    \cup {Response(200, NoHeader, TRUE, Malformed)}
    \cup {Response(200, NoHeader, FALSE, NoData), NoResponse}

SearchIdle ==
    /\ keyword = <<>>
    /\ queryVariations = <<>>
    /\ channels = <<>>
    /\ index = <<>>
    /\ tasks = <<>>
    /\ threadFetches = <<>>
    /\ uniqueMessages = <<>>
    /\ phase = "idle"
    /\ outcome = Pending
    /\ pendingAtAbort = FALSE

FetchInit ==
    /\ SearchIdle
    /\ DashboardIdle
    /\ aborted = FALSE
    /\ call = NewCall
    /\ responses = <<>>
    /\ sleeps = <<>>

\* the caller invokes slackFetch
FetchStart ==
    /\ call.pc = "start"
    /\ call' = slackFetch(aborted)
    /\ UNCHANGED <<aborted, responses, sleeps, searchVars, dashboardVars>>

\* the upstream answers the outstanding request
FetchRespond ==
    /\ call.pc = "fetch"
    /\ \E r \in FetchResponses :
          /\ call' = OnResponse(call, r)
          /\ responses' = Append(responses, r)
          /\ sleeps' = IF call'.pc = "backoff" THEN Append(sleeps, call'.delay)
                       ELSE sleeps
    /\ UNCHANGED <<aborted, searchVars, dashboardVars>>

\* the body read ends
FetchBody ==
    /\ call.pc \in {"json", "text"}
    /\ call' = OnBody(call)
    /\ UNCHANGED <<aborted, responses, sleeps, searchVars, dashboardVars>>

\* the backoff timer fires
FetchTimer ==
    /\ call.pc = "backoff"
    /\ call' = OnTimer(call, aborted)
    /\ UNCHANGED <<aborted, responses, sleeps, searchVars, dashboardVars>>

\* the caller aborts the signal
FetchAbort ==
    /\ ~aborted
    /\ aborted' = TRUE
    /\ call' = OnAbort(call)
    /\ UNCHANGED <<responses, sleeps, searchVars, dashboardVars>>

FetchNext == FetchStart \/ FetchRespond \/ FetchBody \/ FetchTimer \/ FetchAbort

SpecFetch == FetchInit /\ [][FetchNext]_vars

\* the steps of the call that are the program's own: it is started, a body
\* read ends, a backoff timer fires. Whether and when the upstream answers a
\* request, and whether the caller aborts, is left open.
SpecFetchLive ==
    /\ SpecFetch
    /\ WF_vars(FetchStart)
    /\ WF_vars(FetchBody)
    /\ WF_vars(FetchTimer)

----------------------------------------------------------------------------
(* SpecVariations: line 270 on its own, over the keywords a caller can give *)

\* the longest keyword of which every spelling is tried
MaxKeywordLen == 5

KeywordAlphabet == {"a", "b", " ", "\t"}

\* a keyword of n one-letter words
LongKeyword(n) == [k \in 1..(2 * n - 1) |-> IF k % 2 = 1 THEN "a" ELSE " "]

KeywordInputs ==
    UNION {[1..n -> KeywordAlphabet] : n \in 0..MaxKeywordLen}
        \cup {LongKeyword(32), LongKeyword(33)}

VariationsInit ==
    /\ FetchIdle
    /\ DashboardIdle
    /\ keyword \in KeywordInputs
    /\ queryVariations = <<>>
    /\ channels = <<>>
    /\ index = <<>>
    /\ aborted = FALSE
    /\ tasks = <<>>
    /\ threadFetches = <<>>
    /\ uniqueMessages = <<>>
    /\ phase = "idle"
    /\ outcome = Pending
    /\ pendingAtAbort = FALSE

\* line 270: const queryVariations = generateQueryVariations(keyword)
Expand ==
    /\ phase = "idle"
    /\ queryVariations' = generateQueryVariations(keyword)
    /\ phase' = "variations"
    /\ UNCHANGED <<keyword, channels, index, aborted, tasks, threadFetches,
                   uniqueMessages, outcome, pendingAtAbort, fetchVars,
                   dashboardVars>>

VariationsNext == Expand

SpecVariations == VariationsInit /\ [][VariationsNext]_vars

----------------------------------------------------------------------------
(* Properties                                                              *)

\* the numeric value, in tenths, of the timestamps of the workspace
Tenths(ts) ==
    CASE ts = <<"9", ".", "5">> -> 95
      [] ts = <<"9", ".", "7">> -> 97
      [] ts = <<"9", ".", "8">> -> 98
      [] ts = <<"9", ".", "9">> -> 99
      [] ts = <<"1", "0", ".", "1">> -> 101
      [] ts = <<"1", "0", ".", "2">> -> 102
      [] ts = <<"1", "0", ".", "3">> -> 103
      [] ts = <<"1", "0", ".", "6">> -> 106

NonDecreasing(ms) ==
    \A i \in 1..(Len(ms) - 1) : Tenths(ms[i].ts) <= Tenths(ms[i + 1].ts)

\* C1: in every ConversationSet searchMessages returns, the threads are in
\* non-decreasing numeric order of root timestamp and the replies of each
\* thread in non-decreasing numeric order of timestamp ("9.5" before "10.1").
C1_Ordering ==
    outcome.state = "fulfilled" =>
        /\ NonDecreasing(outcome.value)
        /\ \A i \in 1..Len(outcome.value) : NonDecreasing(outcome.value[i].replies)

\* a returned set where thread "9.5", with replies "9.8" and "10.1", precedes
\* the conversation "10.2"
C1_Witness ==
    /\ outcome.state = "fulfilled"
    /\ \E i \in 1..(Len(outcome.value) - 1) :
          /\ outcome.value[i].ts = a0.ts
          /\ outcome.value[i + 1].ts = s0.ts
          /\ Len(outcome.value[i].replies) = 2
          /\ outcome.value[i].replies[1].ts = a1.ts
          /\ outcome.value[i].replies[2].ts = a2.ts

\* nothing of the search is still running
Quiescent ==
    /\ phase # "idle"
    /\ \A i \in 1..Len(tasks) : ~Running(tasks[i])
    /\ \A j \in 1..Len(threadFetches) : ~Running(threadFetches[j])

\* C2: once the signal has aborted while searchMessages was unresolved, the
\* call never fulfils and never rejects with another error than the abort,
\* and when nothing is left running it has rejected with the abort.
C2_CancelledWins ==
    pendingAtAbort =>
        /\ outcome.state # "fulfilled"
        /\ outcome.state = "rejected" => outcome.error = AbortError
        /\ Quiescent => outcome.state = "rejected"

\* the abort came during the thread fetches, after one of them had succeeded
C2_Witness ==
    /\ pendingAtAbort
    /\ outcome = Rejected(AbortError)
    /\ \E j \in 1..Len(threadFetches) : threadFetches[j].promise.state = "fulfilled"
    /\ \E j \in 1..Len(threadFetches) : threadFetches[j].promise.state = "rejected"

FatalErrors == {RateLimitError, NonJsonError, ApiError("invalid_auth")}

Threw(p) == p.call.pc = "threw"

\* C3 as stated: whenever a page fetch of some task has failed with
\* RateLimited, ProtocolViolation or UpstreamRejected, searchMessages has
\* failed with that very error (no page fetch having failed in another way).
C3_Original ==
    (\A j \in 1..Len(tasks) : Threw(tasks[j]) => tasks[j].call.error \in FatalErrors)
        => \A i \in 1..Len(tasks) :
              Threw(tasks[i]) => outcome = Rejected(tasks[i].call.error)

\* C3 as amended: whenever a page fetch has failed, searchMessages has
\* rejected with the error of a failed page fetch and has issued no thread
\* fetch; the error is that of the first page fetch to fail, and later
\* failures do not change it.
C3_FirstFailureWins ==
    /\ [](\A i \in 1..Len(tasks) :
            Threw(tasks[i]) =>
                /\ outcome.state = "rejected"
                /\ \E j \in 1..Len(tasks) :
                      Threw(tasks[j]) /\ outcome.error = tasks[j].call.error
                /\ threadFetches = <<>>)
    /\ [][((\A i \in 1..Len(tasks) : ~Threw(tasks[i]))
             /\ (\E i \in 1..Len(tasks') : Threw(tasks'[i])))
            => \E i \in 1..Len(tasks') :
                  /\ Threw(tasks'[i])
                  /\ outcome' = Rejected(tasks'[i].call.error)]_vars
    /\ [][outcome.state = "rejected" => outcome' = outcome]_vars

\* one task ran out of retries while the other had completed its pages
C3_Witness ==
    /\ outcome = Rejected(RateLimitError)
    /\ \E i \in 1..Len(tasks) : tasks[i].promise = Rejected(RateLimitError)
    /\ \E i \in 1..Len(tasks) : tasks[i].promise.state = "fulfilled"

\* C4 as stated: in a returned ConversationSet, a thread whose fetch failed
\* is present as one of the search hits of that thread, with no replies.
C4_Original ==
    outcome.state = "fulfilled" =>
        \A j \in 1..Len(threadFetches) :
            Threw(threadFetches[j]) =>
                \E k \in 1..Len(outcome.value) :
                    /\ ThreadKey(outcome.value[k]) = threadFetches[j].ts
                    /\ outcome.value[k].replies = <<>>
                    /\ \E m \in Range(uniqueMessages) :
                          /\ m.permalink = outcome.value[k].permalink
                          /\ ThreadKey(m) = threadFetches[j].ts

\* the messages thread fetch j returned
Fetched(j) == threadFetches[j].promise.value

Returned(j) == threadFetches[j].call.pc = "returned"

\* the thread fetch j returned is in the result: root first, then its replies
Entire(j) ==
    \E k \in 1..Len(outcome.value) :
        /\ outcome.value[k].permalink = Fetched(j)[1].permalink
        /\ outcome.value[k].ts = Fetched(j)[1].ts
        /\ outcome.value[k].replies = Tail(Fetched(j))

\* a failure of a thread fetch is never the error of the search
ThreadFailureAbsorbed ==
    /\ (threadFetches # <<>> /\ outcome.state = "rejected")
          => outcome.error = AbortError
    /\ (threadFetches # <<>> /\ ~aborted /\ Quiescent) => outcome.state = "fulfilled"

\* C5 as stated: when one thread fetch failed and others succeeded, the search
\* fulfils and every thread whose fetch succeeded is in the result with its
\* root and all of its fetched replies.
C5_Original ==
    /\ ThreadFailureAbsorbed
    /\ (/\ outcome.state = "fulfilled"
        /\ \E j \in 1..Len(threadFetches) : Threw(threadFetches[j]))
          => \A j \in 1..Len(threadFetches) : Returned(j) => Entire(j)

\* no message thread fetch j returned has the timestamp of a message another
\* thread fetch returned
NoSharedTimestamp(j) ==
    \A l \in 1..Len(threadFetches) :
        (l # j /\ Returned(l)) =>
            \A x \in Range(Fetched(j)), y \in Range(Fetched(l)) : x.ts # y.ts

\* C5 as amended: when one thread fetch failed and others succeeded, the
\* search fulfils, and every thread whose fetch succeeded is in the result
\* with its root and all of its fetched replies provided none of its messages
\* has the timestamp of a message of another fetched thread.
C5_Degrades ==
    /\ ThreadFailureAbsorbed
    /\ (/\ outcome.state = "fulfilled"
        /\ \E j \in 1..Len(threadFetches) : Threw(threadFetches[j]))
          => \A j \in 1..Len(threadFetches) :
                (Returned(j) /\ NoSharedTimestamp(j)) => Entire(j)

\* thread "10.3" was fetched with its reply while the fetch of another thread
\* failed, and the search fulfilled
C5_Witness ==
    /\ outcome.state = "fulfilled"
    /\ \E j \in 1..Len(threadFetches) : Threw(threadFetches[j])
    /\ \E j \in 1..Len(threadFetches) :
          /\ Returned(j)
          /\ Fetched(j) = <<d0, d1>>
          /\ NoSharedTimestamp(j)
          /\ Entire(j)

\* the fan-out has been merged
Merged == tasks # <<>> /\ AllFulfilled(tasks)

Permalinks(ms) == {ms[i].permalink : i \in 1..Len(ms)}

\* C6: the merged matches hold exactly one match per distinct permalink the
\* tasks returned, whatever the order in which the tasks completed.
C6_UniquePermalinks ==
    Merged =>
        /\ \A i, j \in 1..Len(uniqueMessages) :
              i # j => uniqueMessages[i].permalink # uniqueMessages[j].permalink
        /\ Permalinks(uniqueMessages) = Permalinks(Flat(Values(tasks)))

\* two tasks both returned the match pS0
C6_Witness ==
    /\ Merged
    /\ Len(tasks) = 2
    /\ \A i \in 1..2 : "pS0" \in Permalinks(tasks[i].promise.value)
    /\ Cardinality({i \in 1..Len(uniqueMessages) :
                       uniqueMessages[i].permalink = "pS0"}) = 1

\* every timestamp of a ConversationSet: roots and replies
Timestamps(cs) ==
    Flat([i \in 1..Len(cs) |->
            <<cs[i].ts>> \o [j \in 1..Len(cs[i].replies) |-> cs[i].replies[j].ts]])

\* C7: no timestamp occurs twice among the roots and replies of a returned
\* ConversationSet.
C7_UniqueTimestamps ==
    outcome.state = "fulfilled" =>
        LET all == Timestamps(outcome.value) IN
        \A i, j \in 1..Len(all) : i # j => all[i] # all[j]

\* "9.8" was a standalone hit and a member of the fetched thread "9.5"
C7_Witness ==
    /\ outcome.state = "fulfilled"
    /\ StaleHit(a1) \in Range(uniqueMessages)
    /\ \E j \in 1..Len(threadFetches) : Returned(j) /\ a1 \in Range(Fetched(j))
    /\ Cardinality({i \in 1..Len(Timestamps(outcome.value)) :
                       Timestamps(outcome.value)[i] = a1.ts}) = 1

\* C8 as stated: a call is never left in its backoff wait once the signal has
\* aborted; it has failed with the abort.
C8_Original == ~(aborted /\ call.pc = "backoff")

\* the seconds a well-formed Retry-After header carries, 1 when it is absent
WellFormed(h) ==
    h \in {NoHeader, Header(<<"0">>), Header(<<"2">>), Header(<<"1", "0">>)}

SecondsCarried(h) ==
    CASE h = NoHeader -> 1
      [] h = Header(<<"0">>) -> 0
      [] h = Header(<<"2">>) -> 2
      [] h = Header(<<"1", "0">>) -> 10

\* C9: a call that returns after k 429 responses (k at most 4) has issued
\* k + 1 requests, has waited before each retry for the seconds the preceding
\* 429 carried (1000 ms when the header is absent), and returns the payload
\* of the last response.
C9_Backoff ==
    call.pc = "returned" =>
        LET k == Len(responses) - 1 IN
        /\ k \in 0..4
        /\ \A i \in 1..k : responses[i].status = 429
        /\ call.requests = k + 1
        /\ Len(sleeps) = k
        /\ \A i \in 1..k :
              WellFormed(responses[i].retryAfter) =>
                  sleeps[i] = SecondsCarried(responses[i].retryAfter) * 1000
        /\ call.data = responses[k + 1].data
        /\ call.data.ok

\* four 429s, the first without header and the second with "10", then success
C9_Witness ==
    /\ call.pc = "returned"
    /\ Len(responses) = 5
    /\ responses[1].retryAfter = NoHeader
    /\ responses[2].retryAfter = Header(<<"1", "0">>)
    /\ sleeps[1] = 1000
    /\ sleeps[2] = 10000

\* C10: a call issues at most 5 requests, and after five 429 responses it has
\* failed with the rate-limit error, five requests issued.
C10_FiveAttempts ==
    /\ call.requests <= 5
    /\ Len(responses) <= 5
    /\ (Len(responses) = 5 /\ \A i \in 1..5 : responses[i].status = 429)
          => /\ call.pc = "threw"
             /\ call.error = RateLimitError
             /\ call.requests = 5

\* five 429 responses in a row
C10_Witness ==
    /\ Len(responses) = 5
    /\ \A i \in 1..5 : responses[i].status = 429
    /\ call.pc = "threw"

\* the total number of pages a listing reports
Total(listing) == listing[1].paging.pages

\* every page of the listing reports the same total, the number of its pages
ConstantTotal(listing) ==
    /\ Total(listing) >= 1
    /\ Total(listing) = Len(listing)
    /\ \A n \in 1..Len(listing) :
          listing[n].paging.present /\ listing[n].paging.pages = Total(listing)

\* the matches of pages 1..P of a listing, in page order
Concatenation(listing, P) == Flat([n \in 1..P |-> SearchPage(listing, n).matches])

\* C11: against a listing that reports a constant total of P pages, a
\* performSearch task hands the pages 1, 2, ... to the client in order, each
\* once and none beyond P, and when it returns it has asked for exactly the
\* pages 1..P and returns the concatenation of their matches, empty pages
\* included. (A page request the upstream answers with 429 is sent again by
\* the client; the count is of the calls performSearch makes.)
C11_Pagination ==
    \A i \in 1..Len(tasks) :
        LET listing == index[tasks[i].query]
            P == Total(listing)
        IN ConstantTotal(listing) =>
              /\ Len(tasks[i].requested) <= P
              /\ tasks[i].requested = [n \in 1..Len(tasks[i].requested) |-> n]
              /\ tasks[i].promise.state = "fulfilled" =>
                    /\ tasks[i].requested = [n \in 1..P |-> n]
                    /\ tasks[i].promise.value = Concatenation(listing, P)

\* a task returned the matches of a three-page listing after three requests
C11_Witness ==
    \E i \in 1..Len(tasks) :
        /\ Total(index[tasks[i].query]) = 3
        /\ tasks[i].promise = Fulfilled(<<s0, d1>>)
        /\ tasks[i].requested = <<1, 2, 3>>

\* the words of a keyword: its maximal runs of non-space characters
Words(kw) == SplitWords(kw, <<>>, <<>>)

\* the words joined in order, a single space after word j + 1 exactly when
\* j is in the set gaps (the set bits of the bitmask)
RECURSIVE Join(_, _, _)
Join(words, gaps, j) ==
    IF j > Len(words) - 1 THEN <<>>
    ELSE (IF j >= 1 /\ (j - 1) \in gaps THEN <<" ">> ELSE <<>>)
             \o words[j + 1] \o Join(words, gaps, j + 1)

\* the most gaps of which every bitmask is enumerated
MaxEnumeratedGaps == 4

\* the bitmasks of n - 1 gaps: all of them, or the two extreme ones when
\* there are too many to enumerate
Bitmasks(n) ==
    IF n - 1 <= MaxEnumeratedGaps THEN SUBSET (0..(n - 2))
    ELSE {{}, 0..(n - 2)}

\* C12 as stated: for a keyword of n >= 2 words the variations hold, without
\* repetition, the join of every bitmask (and, where the bitmasks are
\* enumerated, nothing else); for a keyword of at most one word they hold
\* the keyword alone, unchanged.
C12_Original ==
    phase = "variations" =>
        LET words == Words(keyword)
            n == Len(words)
        IN IF n <= 1 THEN queryVariations = <<keyword>>
           ELSE /\ \A gaps \in Bitmasks(n) :
                      Join(words, gaps, 0) \in Range(queryVariations)
                /\ \A i, j \in 1..Len(queryVariations) :
                      i # j => queryVariations[i] # queryVariations[j]
                /\ n - 1 <= MaxEnumeratedGaps =>
                      Range(queryVariations)
                          = {Join(words, gaps, 0) : gaps \in Bitmasks(n)}

\* the errors a searchMessages call can fail with
SearchErrors ==
    {AbortError, NetworkError, RateLimitError, NonJsonError,
     ApiError("invalid_auth")}

\* C13: when every task of the fan-out has completed with zero matches,
\* searchMessages has fulfilled with a ConversationSet of length zero, the
\* Dashboard shows the no-results message, and that message is neither what
\* it shows for any failed search nor what it shows for a non-empty result.
C13_EmptySentinel ==
    /\ \A e \in SearchErrors : setSummary(Rejected(e)) # NoResultsSummary
    /\ outcome.state = "rejected" => outcome.error \in SearchErrors
    /\ (Merged /\ \A i \in 1..Len(tasks) : tasks[i].promise.value = <<>>)
          => /\ outcome = Fulfilled(<<>>)
             /\ setSummary(outcome) = NoResultsSummary
    /\ (outcome.state = "fulfilled" /\ outcome.value # <<>>)
          => setSummary(outcome) # NoResultsSummary

\* both channel searches completed without a match
C13_Witness ==
    /\ Len(tasks) = 2
    /\ \A i \in 1..2 : tasks[i].promise = Fulfilled(<<>>)
    /\ outcome = Fulfilled(<<>>)
    /\ setSummary(outcome) = NoResultsSummary

\* a match that belongs to a thread: a reply, or a root with replies
ThreadBearing(m) == m.thread_ts # <<>> \/ m.reply_count > 0

\* the (ThreadKey, channel) pairs of the thread-bearing matches
ThreadPairs(matches) ==
    {<<ThreadKey(m), m.channel>> : m \in {x \in Range(matches) : ThreadBearing(x)}}

\* C14 as stated: once the fan-out is merged, there is one thread fetch for
\* every distinct (ThreadKey, channel) pair of the thread-bearing matches,
\* and no other.
C14_Original ==
    Merged =>
        /\ {<<threadFetches[j].ts, threadFetches[j].channel>> :
                j \in 1..Len(threadFetches)} = ThreadPairs(uniqueMessages)
        /\ Len(threadFetches) = Cardinality(ThreadPairs(uniqueMessages))

\* C15: in every thread of a returned ConversationSet, every reply has the
\* ThreadKey of the root and is of the channel of the root.
C15_OneThread ==
    outcome.state = "fulfilled" =>
        \A k \in 1..Len(outcome.value) :
            \A r \in Range(outcome.value[k].replies) :
                /\ ThreadKey(r) = ThreadKey(outcome.value[k])
                /\ r.channel = outcome.value[k].channel

\* thread "9.5" of C1 was returned with its two replies although a message
\* "9.5" of C2 was among the matches
C15_Witness ==
    /\ outcome.state = "fulfilled"
    /\ StaleHit(b0) \in Range(uniqueMessages)
    /\ \E k \in 1..Len(outcome.value) :
          /\ outcome.value[k].permalink = a0.permalink
          /\ outcome.value[k].replies = <<a1, a2>>

\* max(1, |channels|)
Width(chs) == IF Len(chs) = 0 THEN 1 ELSE Len(chs)

\* C16: once searchMessages has been called there are
\* |variations| x max(1, |channels|) performSearch tasks: one per variation on
\* '<variation> after:<startDate> before:<endDate>' when channels is empty,
\* else one per variation and channel on that query followed by
\* ' in:<channelId>'.
C16_FanOut ==
    phase \in {"search", "threads", "done"} =>
        /\ Len(tasks) = Len(queryVariations) * Width(channels)
        /\ \A v \in 1..Len(queryVariations) :
              IF Len(channels) = 0
              THEN tasks[v].query =
                     queryVariations[v]
                         \o <<" after:", startDate, " before:", endDate>>
              ELSE \A c \in 1..Len(channels) :
                     tasks[(v - 1) * Len(channels) + c].query =
                        queryVariations[v]
                            \o <<" after:", startDate, " before:", endDate,
                                  " in:", channels[c]>>

\* two variations searched in one channel
C16_Witness ==
    /\ phase = "search"
    /\ keyword = <<"a", " ", "b">>
    /\ channels = <<"C1">>
    /\ queryVariations = << <<"a", "b">>, <<"a", " ", "b">> >>
    /\ Len(tasks) = 2
    /\ tasks[1].query[Len(tasks[1].query)] = "C1"

\* one variation searched in two channels
C16_WitnessChannels ==
    /\ phase = "search"
    /\ Len(queryVariations) = 1
    /\ Len(tasks) = 2
    /\ tasks[1].query # tasks[2].query

\* the response the call received last
LastResponse == responses[Len(responses)]

\* a non-429 response whose body is not JSON, whatever its content-type says
BodyNotJson(r) == ~r.failed /\ r.status # 429 /\ r.data \in {NoData, Malformed}

\* C17 as stated: after a non-429 response whose body is not JSON, a call
\* that is not cancelled sends no further request, never returns, and when
\* it has failed it has failed with the non-JSON error.
C17_Original ==
    (Len(responses) > 0 /\ BodyNotJson(LastResponse) /\ ~aborted) =>
        /\ call.pc \in {"json", "text", "threw"}
        /\ call.requests = Len(responses)
        /\ call.pc = "threw" => call.error = NonJsonError

\* a non-429 JSON response whose ok flag is false
UpstreamRejection(r) ==
    ~r.failed /\ r.status # 429 /\ r.json /\ r.data # Malformed /\ ~r.data.ok

\* C18: after a non-429 JSON response whose ok flag is false the call sends
\* no further request and never returns; once the body has been read the
\* call has failed with the API error that carries the error code of the
\* payload. (Only an abort of the signal before the body is read ends the
\* call otherwise, with the abort error.)
C18_UpstreamRejected ==
    /\ []((Len(responses) > 0 /\ UpstreamRejection(LastResponse)) =>
            /\ call.pc \in {"json", "threw"}
            /\ call.requests = Len(responses)
            /\ call.pc = "threw" =>
                  \/ call.error = ApiError(LastResponse.data.error)
                  \/ aborted /\ call.error = AbortError)
    /\ [][(/\ call.pc = "json"
            /\ call.data # Malformed /\ ~call.data.ok
            /\ call'.pc # "json"
            /\ aborted' = aborted)
              => /\ call'.pc = "threw"
                 /\ call'.error = ApiError(call.data.error)
                 /\ call'.requests = call.requests]_vars

\* after one 429, the payload {ok: false, error: "missing_scope"} was read
C18_Witness ==
    /\ Len(responses) = 2
    /\ responses[1].status = 429
    /\ responses[2] = Response(200, NoHeader, TRUE, ErrorData("missing_scope"))
    /\ call.pc = "threw"
    /\ call.error = ApiError("missing_scope")
    /\ call.requests = 2

\* C19 as stated: a task asks for a further page only when the page before
\* it returned at least one match.
C19_Original ==
    \A i \in 1..Len(tasks) :
        \A k \in 2..Len(tasks[i].requested) :
            SearchPage(index[tasks[i].query], tasks[i].requested[k - 1]).matches
                # <<>>

\* a request of the call is outstanding: sent and not yet answered, or its
\* response body not yet read
InFlight(p) == p.call.pc \in {"fetch", "json", "text"}

\* the requests the call of task i has sent, 0 for a task not yet launched
Sent(ts, i) == IF i <= Len(ts) THEN ts[i].call.requests ELSE 0

\* C20: once the signal has aborted no request of a page fetch or a thread
\* fetch is outstanding; the abort rejects every page fetch and every thread
\* fetch that was in flight with the abort error; and from then on no task
\* sends a request and no thread fetch is added.
C20_CancellationReaches ==
    /\ [](aborted =>
            /\ \A i \in 1..Len(tasks) : ~InFlight(tasks[i])
            /\ \A j \in 1..Len(threadFetches) : ~InFlight(threadFetches[j]))
    /\ [][(~aborted /\ aborted') =>
            /\ \A i \in 1..Len(tasks) :
                  (Running(tasks[i]) /\ InFlight(tasks[i]))
                      => tasks'[i].promise = Rejected(AbortError)
            /\ \A j \in 1..Len(threadFetches) :
                  (Running(threadFetches[j]) /\ InFlight(threadFetches[j]))
                      => threadFetches'[j].promise = Rejected(AbortError)]_vars
    /\ [][aborted =>
            /\ \A i \in 1..Len(tasks') : Sent(tasks', i) <= Sent(tasks, i)
            /\ \A j \in 1..Len(threadFetches') :
                  Sent(threadFetches', j) <= Sent(threadFetches, j)]_vars

\* the signal aborted while one task awaited its second page and the other
\* its first: both were rejected with the abort error
C20_Witness ==
    /\ aborted
    /\ Len(tasks) = 2
    /\ \A i \in 1..2 : tasks[i].promise = Rejected(AbortError)
    /\ tasks[1].requested = <<1, 2>>
    /\ tasks[2].requested = <<1>>
    /\ tasks[1].allMessages # <<>>

\* C21 as stated: a request does not stay outstanding forever; when the
\* upstream never answers it, the call leaves its wait all the same.
C21_Original == [](call.pc = "fetch" => <>(call.pc # "fetch"))

\* the deduplicated collection the threads are built from, once every thread
\* fetch has settled
Deduplicated ==
    FinalUniqueMessages(StandaloneMessages(uniqueMessages)
                            \o Flat(Values(threadFetches)))

\* the message a conversation of the result is, without its replies
Root(c) == Msg(c.permalink, c.ts, c.thread_ts, c.reply_count, c.channel)

\* the members of the ThreadKey group of message m
Group(m) == {x \in Range(Deduplicated) : ThreadKey(x) = ThreadKey(m)}

\* C22: in every thread of a returned ConversationSet the root is a member
\* of its ThreadKey group with the smallest timestamp of the group, it is
\* not among its replies, and the replies are the other members of the
\* group, each once; every group has its thread.
C22_RootEarliest ==
    outcome.state = "fulfilled" =>
        /\ \A k \in 1..Len(outcome.value) :
              LET c == outcome.value[k] IN
              /\ Root(c) \in Group(Root(c))
              /\ \A m \in Group(Root(c)) : Tenths(c.ts) <= Tenths(m.ts)
              /\ Root(c) \notin Range(c.replies)
              /\ Range(c.replies) = Group(Root(c)) \ {Root(c)}
              /\ Len(c.replies) = Cardinality(Group(Root(c))) - 1
        /\ \A m \in Range(Deduplicated) :
              \E k \in 1..Len(outcome.value) :
                  ThreadKey(outcome.value[k]) = ThreadKey(m)

\* the group of thread "9.5" arrived as "9.8", "9.5", "10.1" (the stale hit
\* "9.8" came first) and was returned with root "9.5"
C22_Witness ==
    /\ outcome.state = "fulfilled"
    /\ Len(Deduplicated) >= 3
    /\ \E i \in 1..(Len(Deduplicated) - 1) :
          Deduplicated[i] = a1 /\ Deduplicated[i + 1] = a0
    /\ \E k \in 1..Len(outcome.value) :
          Root(outcome.value[k]) = a0 /\ outcome.value[k].replies = <<a1, a2>>

\* the pages whose matches task t has taken in: all it asked for once it
\* has returned, all but the last one before
Received(t) ==
    IF t.promise.state = "fulfilled" THEN Len(t.requested)
    ELSE Len(t.requested) - 1

\* the page task t asked for last
LastRequested(t) == t.requested[Len(t.requested)]

\* C23: at every moment the matches a task has accumulated are those of the
\* pages it has received, in ascending page order; and a task asks for page
\* n + 1 only in the step in which the body of its response for page n has
\* been read, appending the matches of page n to those accumulated then,
\* whatever the other tasks do in between.
C23_PageOrder ==
    /\ [](\A i \in 1..Len(tasks) :
            tasks[i].allMessages =
                Concatenation(index[tasks[i].query], Received(tasks[i])))
    /\ [][\A i \in 1..Len(tasks) :
            Len(tasks'[i].requested) > Len(tasks[i].requested) =>
                LET n == LastRequested(tasks[i])
                    page == SearchPage(index[tasks[i].query], n)
                IN /\ tasks[i].call.pc = "json"
                   /\ tasks[i].call.data = OkData(page)
                   /\ tasks'[i].requested = Append(tasks[i].requested, n + 1)
                   /\ tasks'[i].allMessages =
                          tasks[i].allMessages \o page.matches]_vars

\* two tasks ran side by side, one over three pages and one over two
C23_Witness ==
    /\ Len(tasks) = 2
    /\ tasks[1].requested = <<1, 2, 3>>
    /\ tasks[1].promise = Fulfilled(<<s0, d1>>)
    /\ tasks[2].requested = <<1, 2>>
    /\ tasks[2].call.pc = "fetch"
    /\ tasks[2].allMessages = <<d1>>

\* C24: there is a thread fetch only when every task of the fan-out has
\* fulfilled; when a task has been rejected there is none; and once the
\* signal has aborted with no thread fetch issued, none is issued later.
C24_ThreadsAfterSearch ==
    /\ [](threadFetches # <<>> =>
            /\ tasks # <<>>
            /\ \A i \in 1..Len(tasks) : tasks[i].promise.state = "fulfilled")
    /\ []((\E i \in 1..Len(tasks) : tasks[i].promise.state = "rejected")
            => threadFetches = <<>>)
    /\ [][(aborted /\ threadFetches = <<>>) => threadFetches' = <<>>]_vars

\* one task has returned a reply of thread "9.5" while the other is still
\* searching: the thread is not yet fetched
C24_Witness ==
    /\ Len(tasks) = 2
    /\ tasks[1].promise.state = "fulfilled"
    /\ a2 \in Range(tasks[1].promise.value)
    /\ tasks[2].promise.state = "pending"
    /\ tasks[2].call.pc = "backoff"
    /\ threadFetches = <<>>

\* C25 as stated: once a task has failed with a fatal error and
\* searchMessages has rejected with it, no task asks for a further page and
\* no call of a task sends a further request.
C25_Original ==
    [][(/\ outcome.state = "rejected"
        /\ outcome.error \in FatalErrors
        /\ \E i \in 1..Len(tasks) : tasks[i].promise = Rejected(outcome.error))
          => \A i \in 1..Len(tasks) :
                /\ Len(tasks'[i].requested) = Len(tasks[i].requested)
                /\ Sent(tasks', i) <= Sent(tasks, i)]_vars

\* every thread fetch has succeeded and returned all messages of its thread
ThreadsComplete ==
    \A j \in 1..Len(threadFetches) :
        /\ Returned(j)
        /\ Fetched(j) # <<>>
        /\ Fetched(j) = Replies(threadFetches[j].channel, threadFetches[j].ts)

\* the matches and every message of a thread a match belongs to
Involved ==
    Range(uniqueMessages)
        \cup {m \in Range(Workspace) :
                 <<ThreadKey(m), m.channel>> \in ThreadPairs(uniqueMessages)}

\* distinct messages have distinct timestamps
DistinctTimestamps ==
    \A x, y \in Involved : x.permalink # y.permalink => x.ts # y.ts

\* the permalink of every root and reply of a ConversationSet
Members(cs) ==
    Flat([i \in 1..Len(cs) |->
            <<cs[i].permalink>>
                \o [j \in 1..Len(cs[i].replies) |-> cs[i].replies[j].permalink]])

\* C26: in a returned ConversationSet, when every thread fetch succeeded
\* with all messages of its thread and distinct messages (the matches and
\* the messages of their threads) have distinct timestamps, every
\* deduplicated match occurs exactly once, as a root or as a reply.
C26_NoMatchLost ==
    (outcome.state = "fulfilled" /\ ThreadsComplete /\ DistinctTimestamps) =>
        \A m \in Range(uniqueMessages) :
            Cardinality({i \in 1..Len(Members(outcome.value)) :
                            Members(outcome.value)[i] = m.permalink}) = 1

\* the matches were a standalone message, a reply of thread "9.5", a reply
\* of thread "10.3" and a stale hit of another reply of thread "9.5"
C26_Witness ==
    /\ outcome.state = "fulfilled"
    /\ ThreadsComplete
    /\ DistinctTimestamps
    /\ Len(threadFetches) = 2
    /\ {s0, a2, d1, StaleHit(a1)} \subseteq Range(uniqueMessages)
    /\ Len(outcome.value) = 3

\* C27: against an upstream that answers every request, with a constant
\* finite page count for each query, searchMessages eventually settles, with
\* a ConversationSet or with an error, for every keyword and channel set.
C27_Terminates == <>(outcome.state # "pending")

\* a search over a three-page listing with a thread fetch has fulfilled
C27_Witness ==
    /\ outcome.state = "fulfilled"
    /\ \E i \in 1..Len(tasks) : Len(tasks[i].requested) = 3
    /\ Len(threadFetches) >= 1

\* a running page task or thread fetch is at a request, a body read or a
\* backoff timer, and nothing but the caller's abort is left to do once
\* none is running
WaitingIsEnabled ==
    /\ [](\A i \in 1..Len(tasks) :
            Running(tasks[i]) =>
                tasks[i].call.pc \in {"fetch", "json", "text", "backoff"})
    /\ [](\A j \in 1..Len(threadFetches) :
            Running(threadFetches[j]) =>
                threadFetches[j].call.pc \in {"fetch", "json", "text", "backoff"})
    /\ [][(~Waiting) => ~Progress]_vars

\* C28 as stated, in its weaker half: once Cancel has been pressed while a
\* summary generation was in progress, the summary displayed is never a
\* generated summary.
C28_Original == aborted => summary # GeneratedSummary

\* C29 as stated: for a keyword of n >= 2 words generateQueryVariations
\* returns exactly 2^(n-1) strings, no two of them equal (beyond 2^30 the
\* count is only required to exceed 2^30).
C29_Original ==
    (phase = "variations" /\ Len(Words(keyword)) >= 2) =>
        LET n == Len(Words(keyword)) IN
        /\ IF n - 1 <= 30 THEN Len(queryVariations) = Pow2(n - 1)
           ELSE Len(queryVariations) > Pow2(30)
        /\ Cardinality(Range(queryVariations)) = Len(queryVariations)

\* C30: when the search response carries no paging metadata, performSearch
\* hands exactly one page request, for page 1, to the client and returns the
\* matches of that page; it never asks for page 2.
C30_SinglePage ==
    \A i \in 1..Len(tasks) :
        LET first == SearchPage(index[tasks[i].query], 1) IN
        ~first.paging.present =>
            /\ tasks[i].requested = <<1>>
            /\ tasks[i].promise.state = "fulfilled" =>
                  tasks[i].promise.value = first.matches

\* a task returned the two matches of a response without paging
C30_Witness ==
    \E i \in 1..Len(tasks) :
        /\ ~SearchPage(index[tasks[i].query], 1).paging.present
        /\ tasks[i].promise = Fulfilled(<<RootHit(b0), e1>>)
        /\ tasks[i].requested = <<1>>

====
